---- MODULE Spec2Model ----
(***************************************************************************)
(* Model of rshare's tunnel relay (src/src/tunnel/server.rs): the control  *)
(* listener (handle_ws_connection), the per-session forwarding task, the   *)
(* shared client map and the public gateway (handle_request); and of the   *)
(* agent (src/src/app.rs, src/src/tunnel/client.rs): App::start_tunnel,    *)
(* start_tunnel and the task handle_forwarding.                            *)
(*                                                                         *)
(* Strings are sequences of one-character strings, Option<T> is a sequence *)
(* of length 0 (None) or 1 (Some), a tokio mpsc channel is its queue plus  *)
(* the liveness of its receiver.                                           *)
(***************************************************************************)
EXTENDS Integers, Sequences, FiniteSets, TLC

\* ------------------------------------------------------------------ bounds
MaxConns == 2          \* control connections accepted in a run
MaxReqs == 2           \* gateway request tasks alive at the same time
MaxStarts == 3         \* child processes the App has spawned in a run
MaxFrames == 3         \* items the server side puts on the agent's data socket

Conns == 1..MaxConns
Reqs == 1..MaxReqs

\* ------------------------------------------------------- program constants
ChannelCapacity == 100
OK == 200
NOT_FOUND == 404
INTERNAL_SERVER_ERROR == 500
BAD_GATEWAY == 502
GATEWAY_TIMEOUT == 504
DefaultPort == 8080
DefaultPublicPort == 8000
U16Modulus == 65536

\* ----------------------------------------------------------------- strings
None == <<>>
Some(v) == <<v>>

StartsWith(s, p) == /\ Len(p) <= Len(s)
                    /\ SubSeq(s, 1, Len(p)) = p

\* s.split(ch).next(): the part of s before the first ch (all of s if none)
SplitFirst(s, ch) ==
    IF \E i \in 1..Len(s) : s[i] = ch
    THEN LET i == CHOOSE k \in 1..Len(s) :
                      /\ s[k] = ch
                      /\ \A j \in 1..(k - 1) : s[j] # ch
         IN SubSeq(s, 1, i - 1)
    ELSE s

BaseSuffix == <<".", "p", "u", "b", "l", "i", "c", ".", "d", "e", "v", ".",
                "p", "e", "r", "i", "l", ".", "l", "o", "l">>
Https == <<"h", "t", "t", "p", "s", ":", "/", "/">>

\* format!("{}.public.dev.peril.lol", id)
Subdomain(id) == id \o BaseSuffix

\* a byte outside visible ASCII, as a header value may carry one
NonAscii == "x80"

\* HeaderValue::to_str().unwrap_or(""): the text of the value, or "" when a
\* byte of it is not visible ASCII
to_str_or_empty(h) == IF \E i \in 1..Len(h) : h[i] = NonAscii THEN <<>> ELSE h

\* ------------------------------------------------------------ wire protocol
Register(id, dom) == [type |-> "Register", client_id |-> id, domain |-> dom]
Registered(u) == [type |-> "Registered", url |-> u]
Data(d) == [type |-> "Data", data |-> d]
KeepAlive == [type |-> "KeepAlive"]

\* serde_json::to_vec / from_slice: a payload is the JSON text of a message
\* or bytes that do not parse
to_vec(m) == <<"json", m>>
Garbage == <<"raw">>
from_slice_ok(b) == b[1] = "json"
from_slice(b) == b[2]

\* items of the WebSocket stream: Some(Ok(Message::..)), Some(Err), None
Binary(b) == [kind |-> "Binary", data |-> b]
Text == [kind |-> "Text", data |-> <<>>]
Close == [kind |-> "Close", data |-> <<>>]
StreamErr == [kind |-> "Err", data |-> <<>>]
StreamEnd == [kind |-> "End", data |-> <<>>]

\* ------------------------------------------------------------------ inputs
IdA == <<"a">>
IdAA == IdA \o BaseSuffix
ClientIds == {IdA, IdAA}
\* custom domains a Register frame may carry: none, a prefix of the generated
\* subdomains, and one with a path component
Domains == {None, Some(<<"a">>), Some(Subdomain(IdA) \o <<"/">>)}
Payloads == {<<1>>, <<2>>}

NoHeader == None
\* the Host headers of public requests: absent, the generated subdomain of
\* each client id, one with a path component, one that is not visible ASCII
Headers == {NoHeader,
            Some(Subdomain(IdA)),
            Some(Subdomain(IdAA)),
            Some(Subdomain(IdA) \o <<"/", "x">>),
            Some(<<"a", NonAscii>>)}
PlainHeaders == {NoHeader, Some(Subdomain(IdA)), Some(Subdomain(IdAA))}

\* what a peer may send as the first frame of a control connection
FirstItems ==
    {Binary(to_vec(Register(id, None))) : id \in ClientIds}
    \cup {Binary(to_vec(KeepAlive)), Binary(Garbage), Text, Close,
          StreamErr, StreamEnd}

\* what a peer may send once the session is running
LoopItems ==
    {Binary(to_vec(Data(p))) : p \in Payloads}
    \cup {Binary(to_vec(KeepAlive)), Binary(Garbage), Close, StreamErr}

\* ------------------------------------------------------------------- state
VARIABLES
    clients,   \* the shared map: client_id -> ClientInfo [domain, sender]
    ws,        \* per control connection: position and locals of its handler
    incoming,  \* per control connection: the item the next read will yield
    outgoing,  \* per control connection: frames written to the socket, unread
    chan,      \* per control connection: the mpsc channel created at line 95
    pump,      \* per control connection: the task spawned at line 130
    req,       \* per gateway task: position and locals of handle_request
    agent,     \* the agent: App, start_tunnel and the task handle_forwarding
    main       \* the process: command line, stored config, mode, listeners

vars == <<clients, ws, incoming, outgoing, chan, pump, req, agent, main>>
server_vars == <<clients, ws, incoming, outgoing, chan, pump, req>>

WsIdle == [pc |-> "idle", client_id |-> <<>>, domain |-> None, guard |-> FALSE]
ReqIdle == [pc |-> "idle", guard |-> FALSE, host_header |-> None, line |-> <<>>,
            sender |-> None, client_id |-> <<>>,
            data |-> <<>>, rx |-> <<>>, tx_alive |-> FALSE,
            status |-> None, body |-> <<>>]

\* clap: the value given on the command line, or the default of the argument
ArgValue(given, default) == IF given = None THEN default ELSE given[1]

\* main.rs lines 17-32: no argument given, with --server or without
NoArgs(server_mode) ==
    [port |-> None, domain |-> None, public_port |-> None,
     server |-> server_mode]

\* config.rs lines 14-22
DefaultConfig ==
    [port |-> DefaultPort, server_port |-> DefaultPublicPort, domain |-> None]

\* the process as `--server` with no other argument has it once run is in
\* its accept loop
MainServer ==
    [pc |-> "server", args |-> NoArgs(TRUE), config |-> DefaultConfig,
     loaded |-> None,
     ws_port |-> Some(DefaultPublicPort),
     http_port |-> Some(DefaultPublicPort + 1)]

\* the process in client mode, started with no argument and the default
\* config, once App::new has returned
MainClient ==
    [pc |-> "client", args |-> NoArgs(FALSE), config |-> DefaultConfig,
     loaded |-> Some(DefaultConfig),
     ws_port |-> None, http_port |-> None]

\* the agent before App::start_tunnel is called: no tunnel, no child process,
\* no log channel, no forwarding task
AgentInit ==
    [port |-> DefaultPort, server_port |-> DefaultPublicPort,
     tunnel_process |-> None,
     domain |-> None, client_id |-> IdA,
     pc |-> "idle", log_rx |-> FALSE, sock_in |-> None, sock_out |-> <<>>,
     children |-> 0,
     tunnel_active |-> FALSE, tunnel_url |-> None, connection_error |-> None,
     fpc |-> "none", inbox |-> <<>>, served |-> 0, sent |-> <<>>,
     cur |-> None, local |-> None]

Init ==
    /\ clients = <<>>
    /\ ws = [c \in Conns |-> WsIdle]
    /\ incoming = [c \in Conns |-> None]
    /\ outgoing = [c \in Conns |-> <<>>]
    /\ chan = [c \in Conns |-> [state |-> "none", queue |-> <<>>]]
    /\ pump = [c \in Conns |-> [spawned |-> FALSE, held |-> None]]
    /\ req = [r \in Reqs |-> ReqIdle]
    /\ agent = AgentInit
    /\ main = MainServer

\* clients.lock().await (lines 99, 178, 249) returns when no task has a
\* guard of the mutex
LockFree ==
    /\ \A c \in Conns : ~ws[c].guard
    /\ \A r \in Reqs : ~req[r].guard

\* a task that leaves the scope of its guard with the guard still alive
Unlock_Kept(task) == task

\* the guard is a local of a block (lines 98-107, 248-277) or of the end of
\* the match arm (lines 178-181) and is dropped where the scope ends, before
\* the next await of the task
Unlock(task) == [task EXCEPT !.guard = FALSE]

\* ------------------------------------------------------------- client map
\* HashMap::insert: the entry of id is created or replaced
Insert(m, id, info) ==
    [k \in (DOMAIN m) \cup {id} |-> IF k = id THEN info ELSE m[k]]

\* HashMap::remove: the entry of id, whoever inserted it, is removed
Remove(m, id) == [k \in (DOMAIN m) \ {id} |-> m[k]]

\* domain_part that never looks at the custom domain
domain_part_SubdomainOnly(id, dom) == Subdomain(id)

\* lines 110-116: the public URL announced in Registered
domain_part(id, dom) == IF dom # None THEN dom[1] ELSE Subdomain(id)
tunnel_url(id, dom) == Https \o domain_part(id, dom)

\* ------------------------------------------------- control listener (ws)
\* run, lines 65-74, and accept_async, lines 80-82: connections are taken in
\* order; a failed WebSocket handshake ends the handler with an error (pc
\* "failed" is a handler that returned Err, "done" one that returned Ok)
WsAccept(c, ok) ==
    /\ ws[c].pc = "idle"
    /\ \A d \in Conns : d < c => ws[d].pc # "idle"
    /\ ws' = [ws EXCEPT ![c].pc = IF ok THEN "first" ELSE "failed"]
    /\ UNCHANGED <<clients, incoming, outgoing, chan, pump, req>>
    /\ UNCHANGED <<agent, main>>

\* line 87: the item is a binary frame that decodes to Register
IsRegister(item) ==
    /\ item.kind = "Binary"
    /\ from_slice_ok(item.data)
    /\ from_slice(item.data).type = "Register"

\* WsFirstMessage with the insert done before the frame is looked at: a first
\* frame that is no Register leaves a session behind
WsFirstMessage_InsertFirst(c) ==
    /\ ws[c].pc = "first"
    /\ incoming[c] # None
    /\ incoming' = [incoming EXCEPT ![c] = None]
    /\ IF IsRegister(incoming[c][1])
       THEN LET m == from_slice(incoming[c][1].data) IN
            /\ LockFree
            /\ chan' = [chan EXCEPT ![c] = [state |-> "open", queue |-> <<>>]]
            /\ clients' = Insert(clients, m.client_id,
                                 [domain |-> m.domain, sender |-> c])
            /\ ws' = [ws EXCEPT ![c] = Unlock([pc |-> "reply",
                                               client_id |-> m.client_id,
                                               domain |-> m.domain,
                                               guard |-> TRUE])]
       ELSE /\ ws' = [ws EXCEPT ![c].pc = "done"]
            /\ clients' = Insert(clients, IdA, [domain |-> None, sender |-> c])
            /\ UNCHANGED chan
    /\ UNCHANGED <<outgoing, pump, req>>
    /\ UNCHANGED <<agent, main>>

\* lines 86-107 and 182-186: the first item read from the socket
WsFirstMessage(c) ==
    /\ ws[c].pc = "first"
    /\ incoming[c] # None
    /\ incoming' = [incoming EXCEPT ![c] = None]
    /\ IF IsRegister(incoming[c][1])
       THEN LET m == from_slice(incoming[c][1].data) IN
            /\ LockFree
            /\ chan' = [chan EXCEPT ![c] = [state |-> "open", queue |-> <<>>]]
            /\ clients' = Insert(clients, m.client_id,
                                 [domain |-> m.domain, sender |-> c])
            /\ ws' = [ws EXCEPT ![c] = Unlock([pc |-> "reply",
                                               client_id |-> m.client_id,
                                               domain |-> m.domain,
                                               guard |-> TRUE])]
       ELSE /\ ws' = [ws EXCEPT ![c].pc = "done"]
            /\ UNCHANGED <<clients, chan>>
    /\ UNCHANGED <<outgoing, pump, req>>
    /\ UNCHANGED <<agent, main>>

\* lines 117-137: the Registered reply; on a write error the `?` returns
\* from the handler, which drops the receiver; on success the forwarding
\* task is spawned and owns the receiver and a clone of the sender
WsSendRegistered(c, ok) ==
    /\ ws[c].pc = "reply"
    /\ IF ok
       THEN /\ outgoing' = [outgoing EXCEPT ![c] =
                   Append(@, Binary(to_vec(Registered(
                       tunnel_url(ws[c].client_id, ws[c].domain)))))]
            /\ pump' = [pump EXCEPT ![c].spawned = TRUE]
            /\ ws' = [ws EXCEPT ![c].pc = "loop"]
            /\ UNCHANGED chan
       ELSE /\ ws' = [ws EXCEPT ![c] = [WsIdle EXCEPT !.pc = "failed"]]
            /\ chan' = [chan EXCEPT ![c] = [state |-> "closed",
                                            queue |-> <<>>]]
            /\ UNCHANGED <<outgoing, pump>>
    /\ UNCHANGED <<clients, incoming, req>>
    /\ UNCHANGED <<agent, main>>

\* the peer puts one more item on the connection: its first frame, or a
\* later one once it has read what the server wrote
ClientSend(c, item) ==
    /\ \/ ws[c].pc = "first" /\ item \in FirstItems
       \/ ws[c].pc = "loop" /\ item \in LoopItems
    /\ incoming[c] = None
    /\ outgoing[c] = <<>>
    /\ incoming' = [incoming EXCEPT ![c] = Some(item)]
    /\ UNCHANGED <<clients, ws, outgoing, chan, pump, req>>
    /\ UNCHANGED <<agent, main>>

\* client.rs lines 68-75: the agent's first frame, Register with its client
\* id and the custom domain it was started with, if any
ClientRegister(c, id, dom) ==
    /\ ws[c].pc = "first"
    /\ incoming[c] = None
    /\ incoming' = [incoming EXCEPT ![c] = Some(Binary(to_vec(Register(id, dom))))]
    /\ UNCHANGED <<clients, ws, outgoing, chan, pump, req>>
    /\ UNCHANGED <<agent, main>>

\* the peer reads the oldest frame the server wrote to the socket
ClientRecv(c) ==
    /\ outgoing[c] # <<>>
    /\ outgoing' = [outgoing EXCEPT ![c] = Tail(@)]
    /\ UNCHANGED <<clients, ws, incoming, chan, pump, req>>
    /\ UNCHANGED <<agent, main>>

\* lines 177-180: the loop is left; the entry of client_id is removed
Teardown(c) ==
    /\ LockFree
    /\ clients' = Remove(clients, ws[c].client_id)
    /\ ws' = [ws EXCEPT ![c] = Unlock([WsIdle EXCEPT !.pc = "done",
                                                     !.guard = TRUE])]

\* lines 140-180: one turn of the inbound loop; ok is the outcome of the
\* socket write of the keep-alive echo
WsInbound(c, ok) ==
    /\ ws[c].pc = "loop"
    /\ incoming[c] # None
    /\ incoming' = [incoming EXCEPT ![c] = None]
    /\ LET item == incoming[c][1] IN
       CASE item.kind \in {"Err", "End", "Close"} ->
                /\ Teardown(c)
                /\ UNCHANGED outgoing
         [] /\ item.kind = "Binary"
            /\ from_slice_ok(item.data)
            /\ from_slice(item.data).type = "KeepAlive" ->
                IF ok
                THEN /\ outgoing' = [outgoing EXCEPT ![c] =
                                        Append(@, Binary(to_vec(KeepAlive)))]
                     /\ UNCHANGED <<clients, ws>>
                ELSE /\ Teardown(c)
                     /\ UNCHANGED outgoing
         [] OTHER ->
                \* Data is printed, every other frame is ignored
                UNCHANGED <<clients, ws, outgoing>>
    /\ UNCHANGED <<chan, pump, req>>
    /\ UNCHANGED <<agent, main>>

\* the holders of a Sender of the channel of connection c: the handler's
\* `sender` (line 95) while the handler runs, the clone in the client map
\* (line 104), the task's sender_for_ws (line 127), and the clone each
\* handle_request took at its lookup and keeps until it returns
Senders(c) ==
    (IF ws[c].pc \in {"reply", "loop"} THEN {<<"handler", 0>>} ELSE {})
    \cup (IF \E id \in DOMAIN clients : clients[id].sender = c
          THEN {<<"map", 0>>} ELSE {})
    \cup (IF pump[c].spawned THEN {<<"task", 0>>} ELSE {})
    \cup {<<"request", r>> : r \in {q \in Reqs : req[q].sender = Some(c)}}

\* lines 130-137: the spawned task takes the oldest message of the channel;
\* receiver.recv() yields None, which ends the task, only when the channel is
\* empty and no Sender of it is left
PumpRecv(c) ==
    /\ pump[c].spawned
    /\ pump[c].held = None
    /\ IF chan[c].queue # <<>>
       THEN /\ pump' = [pump EXCEPT ![c].held = Some(Head(chan[c].queue))]
            /\ chan' = [chan EXCEPT ![c].queue = Tail(@)]
       ELSE /\ Senders(c) = {}
            /\ pump' = [pump EXCEPT ![c].spawned = FALSE]
            /\ chan' = [chan EXCEPT ![c].state = "closed"]
    /\ UNCHANGED <<clients, ws, incoming, outgoing, req>>
    /\ UNCHANGED <<agent, main>>

\* line 133: sender_for_ws.send(msg) puts the message back on the channel
\* it was taken from, and suspends while the channel is full
PumpSend(c) ==
    /\ pump[c].held # None
    /\ IF chan[c].state = "closed"
       THEN \* is_err(): the receiver is gone, the task breaks out of its loop
            /\ pump' = [pump EXCEPT ![c] = [spawned |-> FALSE, held |-> None]]
            /\ UNCHANGED chan
       ELSE /\ Len(chan[c].queue) < ChannelCapacity
            /\ chan' = [chan EXCEPT ![c].queue = Append(@, pump[c].held[1])]
            /\ pump' = [pump EXCEPT ![c].held = None]
    /\ UNCHANGED <<clients, ws, incoming, outgoing, req>>
    /\ UNCHANGED <<agent, main>>

\* --------------------------------------------------- public gateway (http)
RequestLines == {<<"GET", "/">>}

\* lines 285-290: "{method} {path} HTTP/1.1\r\nHost: {host}\r\n\r\n"
request_data(line, host) == <<line[1], line[2], host>>

\* line 245: the routing host, without path components
base_domain(host) == SplitFirst(host, "/")

\* lines 254-261: the sessions whose custom domain is a prefix of the host
DomainMatches(m, bd) ==
    {id \in DOMAIN m : /\ m[id].domain # None
                       /\ StartsWith(bd, m[id].domain[1])}

\* SubdomainMatches with the arguments of starts_with exchanged
SubdomainMatches_Swapped(m, bd) ==
    {id \in DOMAIN m : StartsWith(Subdomain(id), bd)}

\* lines 265-270: the sessions whose generated subdomain is a prefix of it
SubdomainMatches(m, bd) ==
    {id \in DOMAIN m : StartsWith(bd, Subdomain(id))}

\* matched_client without its second loop
matched_client_DomainOnly(m, bd) == DomainMatches(m, bd)

\* lines 252-271: each loop stops at the first match in the iteration order
\* of the HashMap, which is not fixed: any matching session can be the one
matched_client(m, bd) ==
    IF DomainMatches(m, bd) # {} THEN DomainMatches(m, bd)
    ELSE SubdomainMatches(m, bd)

Finished(code, bytes) ==
    [ReqIdle EXCEPT !.pc = "done", !.status = Some(code), !.body = bytes]

\* lines 325-330
not_found_response == Finished(NOT_FOUND, <<"Not found">>)

\* handle_http_connection handing the Err of handle_request on to hyper
handle_http_connection_Propagate(result) == result

\* lines 201-218: an Err of handle_request becomes a 500 with a JSON body
handle_http_connection(result) ==
    IF result.pc = "err"
    THEN Finished(INTERNAL_SERVER_ERROR, <<"{\"error\":\"Internal server error\"}">>)
    ELSE result

\* lines 198-201: hyper hands one parsed request to handle_request; the
\* tasks are taken in order
HttpAccept(r, hdr, line) ==
    /\ req[r].pc = "idle"
    /\ \A q \in Reqs : q < r => req[q].pc # "idle"
    /\ req' = [req EXCEPT ![r] = [ReqIdle EXCEPT !.pc = "lookup",
                                                !.host_header = hdr,
                                                !.line = line]]
    /\ UNCHANGED <<clients, ws, incoming, outgoing, chan, pump>>
    /\ UNCHANGED <<agent, main>>

\* lines 235-290: Host header, lookup under the lock, response channel and
\* request text; the task then holds a clone of the session's sender
HandleRequestLookup(r) ==
    /\ req[r].pc = "lookup"
    /\ IF req[r].host_header = NoHeader
       THEN req' = [req EXCEPT ![r] = not_found_response]
       ELSE LET host == to_str_or_empty(req[r].host_header[1])
                bd == base_domain(host)
            IN /\ LockFree
               /\ IF matched_client(clients, bd) = {}
                  THEN req' = [req EXCEPT ![r] =
                                 Unlock([not_found_response
                                           EXCEPT !.guard = TRUE])]
                  ELSE \E id \in matched_client(clients, bd) :
                      req' = [req EXCEPT ![r] =
                                Unlock([ReqIdle EXCEPT
                                   !.guard = TRUE,
                                   !.pc = "send",
                                   !.sender = Some(clients[id].sender),
                                   !.client_id = id,
                                   !.data = request_data(req[r].line, host),
                                   !.tx_alive = TRUE])]
    /\ UNCHANGED <<clients, ws, incoming, outgoing, chan, pump>>
    /\ UNCHANGED <<agent, main>>

\* lines 292-298: sender.send(..).await? suspends while the channel is full
\* and fails, returning Err from handle_request, when its receiver is gone
HandleRequestSend(r) ==
    /\ req[r].pc = "send"
    /\ LET c == req[r].sender[1] IN
       IF chan[c].state = "closed"
       THEN /\ req' = [req EXCEPT ![r] =
                         handle_http_connection([ReqIdle EXCEPT !.pc = "err"])]
            /\ UNCHANGED chan
       ELSE /\ Len(chan[c].queue) < ChannelCapacity
            /\ chan' = [chan EXCEPT ![c].queue =
                          Append(@, Binary(to_vec(Data(req[r].data))))]
            /\ req' = [req EXCEPT ![r].pc = "wait"]
    /\ UNCHANGED <<clients, ws, incoming, outgoing, pump>>
    /\ UNCHANGED <<agent, main>>

\* HandleRequestWait with the two failure statuses exchanged
HandleRequestWait_Swapped(r) ==
    /\ req[r].pc = "wait"
    /\ req' = [req EXCEPT ![r] =
                 IF req[r].rx # <<>>
                 THEN Finished(OK, Head(req[r].rx))
                 ELSE IF ~req[r].tx_alive
                 THEN Finished(GATEWAY_TIMEOUT, <<"Request timed out">>)
                 ELSE Finished(BAD_GATEWAY, <<"Client disconnected">>)]
    /\ UNCHANGED <<clients, ws, incoming, outgoing, chan, pump>>
    /\ UNCHANGED <<agent, main>>

\* lines 300-322: timeout(30 s, rx.recv()): a received body, a closed
\* response channel, or the timer; _tx stays in scope until the return
HandleRequestWait(r) ==
    /\ req[r].pc = "wait"
    /\ req' = [req EXCEPT ![r] =
                 IF req[r].rx # <<>>
                 THEN Finished(OK, Head(req[r].rx))
                 ELSE IF ~req[r].tx_alive
                 THEN Finished(BAD_GATEWAY, <<"Client disconnected">>)
                 ELSE Finished(GATEWAY_TIMEOUT, <<"Request timed out">>)]
    /\ UNCHANGED <<clients, ws, incoming, outgoing, chan, pump>>
    /\ UNCHANGED <<agent, main>>

\* lines 201-203: the response is returned to hyper and the task ends; the
\* next request can take its place
HttpRelease(r) ==
    /\ req[r].pc = "done"
    /\ req' = [req EXCEPT ![r] = ReqIdle]
    /\ UNCHANGED <<clients, ws, incoming, outgoing, chan, pump>>
    /\ UNCHANGED <<agent, main>>

\* ------------------------------------------------------------------ agent
\* Message::into_data: the payload of a frame of any kind
into_data(item) == item.data

\* serde_json::from_slice::<TunnelMessage>(..) is Ok
Decodes(b) == b # <<>> /\ from_slice_ok(b)

\* what the peer of the registration socket may answer to Register
ReplyItems ==
    {Binary(to_vec(Registered(tunnel_url(IdA, None)))),
     Binary(to_vec(Registered(tunnel_url(IdA, Some(<<"a">>))))),
     Binary(to_vec(KeepAlive)), Binary(to_vec(Data(<<1>>))),
     Binary(to_vec(Register(IdA, None))), Binary(Garbage), Text, Close,
     StreamErr, StreamEnd}

\* what the peer of the data socket may send
DataItems ==
    {Binary(to_vec(Data(<<1>>))), Binary(to_vec(KeepAlive)), Binary(Garbage),
     Binary(to_vec(Registered(tunnel_url(IdA, None)))), Text, Close,
     StreamErr, StreamEnd}

\* what the local service does with one bridged request: refuse the
\* connection, fail the write, fail the read, close without data, or answer
LocalFailures ==
    {[err |-> e, data |-> <<>>] :
        e \in {"refused", "write_err", "read_err", "closed"}}
LocalOutcomes == LocalFailures \cup {[err |-> "", data |-> p] : p \in Payloads}

\* log_sender.send(..).await?: the message is taken while the receiver of the
\* log channel lives; with the receiver gone the send is an Err and the `?`
\* returns it
LogThen(a, next) == IF a.log_rx THEN next ELSE "err"

\* app.rs lines 92-97: the Err of start_tunnel is logged and kept
StartFailed(a, err) ==
    [a EXCEPT !.pc = "idle", !.sock_in = None, !.sock_out = <<>>,
              !.connection_error = Some(<<"Failed to start tunnel: ", err>>)]

\* client.rs lines 90-99 and app.rs lines 84-90: handle_forwarding is
\* spawned, the url is returned and the App marks the tunnel active
StartSucceeded(a, url) ==
    [a EXCEPT !.pc = "idle", !.sock_in = None, !.sock_out = <<>>,
              !.tunnel_active = TRUE, !.tunnel_process = Some(a.children),
              !.tunnel_url = Some(url), !.fpc = "connect"]

\* main.rs lines 92-95 and app.rs lines 69-73: key 's' with no tunnel active;
\* the receiver of the new log channel is dropped where it is made
AppStartTunnel ==
    /\ agent.pc = "idle"
    /\ ~agent.tunnel_active
    /\ agent.children < MaxStarts
    /\ agent' = [agent EXCEPT !.pc = "spawn", !.connection_error = None,
                              !.log_rx = FALSE]
    /\ UNCHANGED <<server_vars, main>>

\* client.rs lines 38-59: the child process; it is not killed when a later
\* step of start_tunnel fails
StartSpawn(ok) ==
    /\ agent.pc = "spawn"
    /\ agent' = IF ok
                THEN [agent EXCEPT !.pc = "connect", !.children = @ + 1]
                ELSE StartFailed(agent, "Failed to start tunnel client process")
    /\ UNCHANGED <<server_vars, main>>

\* client.rs lines 62-65
StartConnect(ok) ==
    /\ agent.pc = "connect"
    /\ agent' = IF ok THEN [agent EXCEPT !.pc = "register"]
                ELSE StartFailed(agent, "Failed to connect to tunnel server")
    /\ UNCHANGED <<server_vars, main>>

\* client.rs lines 68-75: the socket the Register frame is written to is a
\* local of start_tunnel and goes when start_tunnel returns
StartRegister(ok) ==
    /\ agent.pc = "register"
    /\ agent' = IF ok
                THEN [agent EXCEPT
                        !.pc = "await",
                        !.sock_out = <<Binary(to_vec(
                            Register(agent.client_id, agent.domain)))>>]
                ELSE StartFailed(agent, "WebSocket error")
    /\ UNCHANGED <<server_vars, main>>

\* the peer of the registration socket answers, or the connection ends
ServerReplies(item) ==
    /\ agent.pc = "await"
    /\ agent.sock_in = None
    /\ agent' = [agent EXCEPT !.sock_in = Some(item)]
    /\ UNCHANGED <<server_vars, main>>

\* client.rs lines 78-99: socket.next().await, with no timer around it, then
\* the decoding of the reply, the log line and the spawn
StartResponse ==
    /\ agent.pc = "await"
    /\ agent.sock_in # None
    /\ LET item == agent.sock_in[1] IN
       agent' =
          CASE item.kind = "End" -> StartFailed(agent, "No response from server")
            [] item.kind = "Err" -> StartFailed(agent, "WebSocket error")
            [] ~Decodes(into_data(item)) -> StartFailed(agent, "JSON error")
            [] from_slice(into_data(item)).type # "Registered" ->
                 StartFailed(agent, "Unexpected response from server")
            [] ~agent.log_rx -> StartFailed(agent, "channel closed")
            [] OTHER ->
                 StartSucceeded(agent, from_slice(into_data(item)).url)
    /\ UNCHANGED <<server_vars, main>>

\* the owner of the receiver of the log channel drops it (App does so before
\* it calls start_tunnel, app.rs line 73)
LogReceiverDropped ==
    /\ agent.log_rx
    /\ agent' = [agent EXCEPT !.log_rx = FALSE]
    /\ UNCHANGED <<server_vars, main>>

\* client.rs lines 109-116: the data connection and its log line
FwdConnect(ok) ==
    /\ agent.fpc = "connect"
    /\ agent' = [agent EXCEPT !.fpc = IF ok THEN LogThen(agent, "read")
                                      ELSE "err"]
    /\ UNCHANGED <<server_vars, main>>

\* the peer of the data socket sends one more item; nothing follows the end
\* of the stream or an error
ServerSendsData(item) ==
    /\ agent.fpc \in {"connect", "read", "local"}
    /\ agent.served < MaxFrames
    /\ IF agent.inbox = <<>> THEN TRUE
       ELSE agent.inbox[Len(agent.inbox)].kind \notin {"End", "Err"}
    /\ agent' = [agent EXCEPT !.inbox = Append(@, item), !.served = @ + 1]
    /\ UNCHANGED <<server_vars, main>>

\* client.rs lines 203-205: the loop is left; "Disconnected from server"
Disconnected(a) == [a EXCEPT !.fpc = LogThen(a, "backoff")]

\* client.rs lines 119-201: one turn of the loop up to the connect to the
\* local service; ok is the outcome of the socket write of the keep-alive
FwdRead(ok) ==
    /\ agent.fpc = "read"
    /\ agent.inbox # <<>>
    /\ LET item == Head(agent.inbox)
           a == [agent EXCEPT !.inbox = Tail(@)]
       IN agent' =
          CASE item.kind = "End" -> Disconnected(a)
            [] item.kind \in {"Err", "Close"} ->
                 IF a.log_rx THEN Disconnected(a) ELSE [a EXCEPT !.fpc = "err"]
            [] item.kind = "Binary" /\ Decodes(item.data)
                  /\ from_slice(item.data).type = "Data" ->
                 [a EXCEPT !.fpc = "local",
                           !.cur = Some(from_slice(item.data).data)]
            [] item.kind = "Binary" /\ Decodes(item.data)
                  /\ from_slice(item.data).type = "KeepAlive" ->
                 IF ok THEN [a EXCEPT !.sent = Append(@, Binary(to_vec(KeepAlive)))]
                 ELSE [a EXCEPT !.fpc = "err"]
            [] item.kind = "Binary" ->
                 \* "Received unknown message type"
                 [a EXCEPT !.fpc = LogThen(a, "read")]
            [] OTHER -> a
    /\ UNCHANGED <<server_vars, main>>

\* the local service deals with the request the task is bridging
LocalResponds(outcome) ==
    /\ agent.fpc = "local"
    /\ agent.local = None
    /\ agent' = [agent EXCEPT !.local = Some(outcome)]
    /\ UNCHANGED <<server_vars, main>>

\* client.rs lines 125-172: connect, write_all and read of the local
\* service, awaited inside the loop; ok is the outcome of the socket write of
\* the response frame
FwdLocal(ok) ==
    /\ agent.fpc = "local"
    /\ agent.local # None
    /\ LET a == [agent EXCEPT !.local = None, !.cur = None]
           outcome == agent.local[1]
       IN agent' =
          IF outcome \in LocalFailures
          THEN [a EXCEPT !.fpc = LogThen(a, "read")]
          ELSE IF ok
          THEN [a EXCEPT !.fpc = "read",
                         !.sent = Append(@, Binary(to_vec(Data(outcome.data))))]
          ELSE [a EXCEPT !.fpc = "err"]
    /\ UNCHANGED <<server_vars, main>>

\* client.rs lines 207-214: sleep 5 s, "Attempting to reconnect...", return
FwdBackoff ==
    /\ agent.fpc = "backoff"
    /\ agent' = [agent EXCEPT !.fpc = LogThen(agent, "ok")]
    /\ UNCHANGED <<server_vars, main>>

\* stop_tunnel that leaves tunnel_url as it is
stop_tunnel_KeepsUrl(a, kill_ok) ==
    IF a.tunnel_process = None THEN a
    ELSE [a EXCEPT !.tunnel_process = None,
                   !.children = IF kill_ok THEN @ - 1 ELSE @,
                   !.tunnel_active = FALSE,
                   !.connection_error = None]

\* app.rs lines 101-118: the handle is taken and the child killed; the task
\* spawned at client.rs lines 91-93 is not referred to
stop_tunnel(a, kill_ok) ==
    IF a.tunnel_process = None THEN a
    ELSE [a EXCEPT !.tunnel_process = None,
                   !.children = IF kill_ok THEN @ - 1 ELSE @,
                   !.tunnel_active = FALSE, !.tunnel_url = None,
                   !.connection_error = None]

\* main.rs lines 92-97: key 's' while the tunnel is active
AppStopTunnel(kill_ok) ==
    /\ agent.pc = "idle"
    /\ agent.tunnel_active
    /\ agent' = stop_tunnel(agent, kill_ok)
    /\ UNCHANGED <<server_vars, main>>

\* what tunnel::client::start_tunnel can hand back to App::start_tunnel: Ok
\* with a url and the child, or Err before or after the child was spawned
StartResults ==
    {[ok |-> TRUE, spawned |-> TRUE, url |-> tunnel_url(IdA, dom), err |-> ""] :
        dom \in {None, Some(<<"a">>)}}
    \cup {[ok |-> FALSE, spawned |-> FALSE, url |-> <<>>,
            err |-> "Failed to start tunnel client process"]}
    \cup {[ok |-> FALSE, spawned |-> TRUE, url |-> <<>>, err |-> e] :
            e \in {"Failed to connect to tunnel server", "WebSocket error",
                   "No response from server", "JSON error",
                   "Unexpected response from server", "channel closed"}}

\* app.rs lines 69-99 over a result of tunnel::client::start_tunnel
App_start_tunnel(a, result) ==
    LET b == [a EXCEPT !.connection_error = None,
                       !.children = IF result.spawned THEN @ + 1 ELSE @]
    IN IF result.ok THEN StartSucceeded(b, result.url)
       ELSE StartFailed(b, result.err)

\* main.rs lines 92-98: key 's' starts the tunnel when none is active and
\* stops it otherwise
KeyS(result, kill_ok) ==
    /\ agent.pc = "idle"
    /\ agent.tunnel_active \/ agent.children < MaxStarts
    /\ agent' = IF ~agent.tunnel_active THEN App_start_tunnel(agent, result)
                ELSE stop_tunnel(agent, kill_ok)
    /\ UNCHANGED <<server_vars, main>>

\* main.rs lines 86-91: key 'q' stops an active tunnel and leaves run_app
KeyQ(kill_ok) ==
    /\ agent.pc = "idle"
    /\ agent' = [(IF agent.tunnel_active THEN stop_tunnel(agent, kill_ok)
                  ELSE agent) EXCEPT !.pc = "quit"]
    /\ UNCHANGED <<server_vars, main>>

\* server.rs lines 28-40: bind the control listener on the port, add one to
\* the u16, bind the HTTP listener. The sum of 65535 and one panics in a
\* build with overflow checks and is 0 in a build without them.
run(m, port, ws_ok, http_ok, overflow_checks) ==
    IF ~ws_ok THEN [m EXCEPT !.pc = "failed"]
    ELSE IF port + 1 >= U16Modulus /\ overflow_checks
    THEN [m EXCEPT !.pc = "panic"]
    ELSE IF ~http_ok THEN [m EXCEPT !.pc = "failed"]
    ELSE [m EXCEPT !.pc = "server", !.ws_port = Some(port),
                   !.http_port = Some((port + 1) % U16Modulus)]

\* main.rs lines 38-45: server mode
ServerRun(ws_ok, http_ok, overflow_checks) ==
    /\ main.pc = "start"
    /\ main.args.server
    /\ main' = run(main, ArgValue(main.args.public_port, DefaultPublicPort),
                   ws_ok, http_ok, overflow_checks)
    /\ UNCHANGED <<server_vars, agent>>

\* app.rs lines 33-67 over the three arguments and the config loaded
App_new(port, domain, server_port, config) ==
    [AgentInit EXCEPT
       !.port = IF port # DefaultPort THEN port ELSE config.port,
       !.server_port = IF server_port # DefaultPublicPort THEN server_port
                       ELSE config.server_port,
       !.domain = IF domain # None THEN domain ELSE config.domain]

\* main.rs lines 47-56 and app.rs lines 35-38: client mode; the config is
\* the stored one, or the default when it cannot be read or parsed
AppNew(load_ok) ==
    /\ main.pc = "start"
    /\ ~main.args.server
    /\ LET config == IF load_ok THEN main.config ELSE DefaultConfig IN
       /\ agent' = App_new(ArgValue(main.args.port, DefaultPort),
                           main.args.domain,
                           ArgValue(main.args.public_port, DefaultPublicPort),
                           config)
       /\ main' = [main EXCEPT !.pc = "client", !.loaded = Some(config)]
    /\ UNCHANGED server_vars

\* ------------------------------------------------------------ specification
Next ==
    \/ \E c \in Conns, ok \in BOOLEAN : WsAccept(c, ok)
    \/ \E c \in Conns : WsFirstMessage(c)
    \/ \E c \in Conns, ok \in BOOLEAN : WsSendRegistered(c, ok)
    \/ \E c \in Conns, item \in FirstItems \cup LoopItems : ClientSend(c, item)
    \/ \E c \in Conns : ClientRecv(c)
    \/ \E c \in Conns, ok \in BOOLEAN : WsInbound(c, ok)
    \/ \E c \in Conns : PumpRecv(c)
    \/ \E c \in Conns : PumpSend(c)
    \/ \E r \in Reqs, hdr \in PlainHeaders, line \in RequestLines :
          HttpAccept(r, hdr, line)
    \/ \E r \in Reqs : HandleRequestLookup(r)
    \/ \E r \in Reqs : HandleRequestSend(r)
    \/ \E r \in Reqs : HandleRequestWait(r)

Spec == Init /\ [][Next]_vars
\* ------------------------------------------------ routing specification
\* Any set of running sessions with distinct client ids, each with any custom
\* domain, and the gateway serving requests for every Host header.
Min(a, b) == IF a < b THEN a ELSE b

SessionSets ==
    UNION {{s \in [1..k -> ClientIds \X Domains] :
               \A i, j \in 1..k : i # j => s[i][1] # s[j][1]} :
           k \in 0..Min(MaxConns, Cardinality(ClientIds))}

InitRoute ==
    \E s \in SessionSets :
       /\ clients = [id \in {s[c][1] : c \in DOMAIN s} |->
                       LET c == CHOOSE d \in DOMAIN s : s[d][1] = id
                       IN [domain |-> s[c][2], sender |-> c]]
       /\ ws = [c \in Conns |->
                  IF c \in DOMAIN s
                  THEN [pc |-> "loop", client_id |-> s[c][1],
                        domain |-> s[c][2], guard |-> FALSE]
                  ELSE WsIdle]
       /\ incoming = [c \in Conns |-> None]
       /\ outgoing = [c \in Conns |-> <<>>]
       /\ chan = [c \in Conns |->
                    [state |-> IF c \in DOMAIN s THEN "open" ELSE "none",
                     queue |-> <<>>]]
       /\ pump = [c \in Conns |-> [spawned |-> c \in DOMAIN s, held |-> None]]
       /\ req = [r \in Reqs |-> ReqIdle]
       /\ agent = AgentInit
       /\ main = MainServer

NextRoute ==
    \/ \E r \in Reqs, hdr \in Headers, line \in RequestLines :
          HttpAccept(r, hdr, line)
    \/ \E r \in Reqs : HandleRequestLookup(r)
    \/ \E r \in Reqs : HandleRequestSend(r)
    \/ \E r \in Reqs : HandleRequestWait(r)
    \/ \E c \in Conns : PumpRecv(c)
    \/ \E c \in Conns : PumpSend(c)

SpecRoute == InitRoute /\ [][NextRoute]_vars

\* ------------------------------------------- control-only specification
\* The control listener alone, without public traffic.
NextControl ==
    \/ \E c \in Conns, ok \in BOOLEAN : WsAccept(c, ok)
    \/ \E c \in Conns : WsFirstMessage(c)
    \/ \E c \in Conns, ok \in BOOLEAN : WsSendRegistered(c, ok)
    \/ \E c \in Conns, item \in FirstItems \cup LoopItems : ClientSend(c, item)
    \/ \E c \in Conns : ClientRecv(c)
    \/ \E c \in Conns, ok \in BOOLEAN : WsInbound(c, ok)

SpecControl == Init /\ [][NextControl]_vars

\* -------------------------------------------------- burst specification
\* One running session, and public requests for its generated subdomain
\* without end: at most MaxReqs at a time, each task making room for the
\* next when it has answered.
InitBurst ==
    /\ clients = [id \in {IdA} |-> [domain |-> None, sender |-> 1]]
    /\ ws = [c \in Conns |->
               IF c = 1
               THEN [WsIdle EXCEPT !.pc = "loop", !.client_id = IdA]
               ELSE WsIdle]
    /\ incoming = [c \in Conns |-> None]
    /\ outgoing = [c \in Conns |-> <<>>]
    /\ chan = [c \in Conns |->
                 [state |-> IF c = 1 THEN "open" ELSE "none", queue |-> <<>>]]
    /\ pump = [c \in Conns |-> [spawned |-> c = 1, held |-> None]]
    /\ req = [r \in Reqs |-> ReqIdle]
    /\ agent = AgentInit
    /\ main = MainServer

NextBurst ==
    \/ \E r \in Reqs, line \in RequestLines :
          HttpAccept(r, Some(Subdomain(IdA)), line)
    \/ \E r \in Reqs : HandleRequestLookup(r)
    \/ \E r \in Reqs : HandleRequestSend(r)
    \/ \E r \in Reqs : HandleRequestWait(r)
    \/ \E r \in Reqs : HttpRelease(r)
    \/ \E c \in Conns : PumpRecv(c)
    \/ \E c \in Conns : PumpSend(c)

\* every task that can run does run; a sender waiting for room in a tokio
\* channel is served first come, first served, so a request whose send can
\* proceed again and again does proceed
FairBurst ==
    /\ \A r \in Reqs :
          /\ WF_vars(HandleRequestLookup(r))
          /\ SF_vars(HandleRequestSend(r))
          /\ WF_vars(HandleRequestWait(r))
    /\ \A c \in Conns :
          /\ WF_vars(PumpRecv(c))
          /\ WF_vars(PumpSend(c))

SpecBurst == InitBurst /\ [][NextBurst]_vars /\ FairBurst

\* ------------------------------------------------ session specification
\* One running session, its peer sending what it likes, and MaxReqs public
\* requests.
NextSession ==
    \/ \E c \in Conns, item \in LoopItems : ClientSend(c, item)
    \/ \E c \in Conns : ClientRecv(c)
    \/ \E c \in Conns, ok \in BOOLEAN : WsInbound(c, ok)
    \/ \E c \in Conns : PumpRecv(c)
    \/ \E c \in Conns : PumpSend(c)
    \/ \E r \in Reqs, hdr \in PlainHeaders, line \in RequestLines :
          HttpAccept(r, hdr, line)
    \/ \E r \in Reqs : HandleRequestLookup(r)
    \/ \E r \in Reqs : HandleRequestSend(r)
    \/ \E r \in Reqs : HandleRequestWait(r)

SpecSession == InitBurst /\ [][NextSession]_vars

\* the same, with every task that can run running
SpecSessionFair == InitBurst /\ [][NextSession]_vars /\ FairBurst

\* ------------------------------------------- registration specification
\* Agents registering with every client id and every custom domain, and
\* leaving again.
NextRegister ==
    \/ \E c \in Conns, ok \in BOOLEAN : WsAccept(c, ok)
    \/ \E c \in Conns, id \in ClientIds, dom \in Domains :
          ClientRegister(c, id, dom)
    \/ \E c \in Conns : WsFirstMessage(c)
    \/ \E c \in Conns, ok \in BOOLEAN : WsSendRegistered(c, ok)
    \/ \E c \in Conns : ClientRecv(c)
    \/ \E c \in Conns : ClientSend(c, Close)
    \/ \E c \in Conns, ok \in BOOLEAN : WsInbound(c, ok)

SpecRegister == Init /\ [][NextRegister]_vars

\* --------------------------------------------------- the registry lock
\* Agents registering and leaving while public requests for the generated
\* subdomain of client "a" are looked up, forwarded and waited for.
NextLock ==
    \/ \E c \in Conns, ok \in BOOLEAN : WsAccept(c, ok)
    \/ \E c \in Conns, id \in ClientIds : ClientRegister(c, id, None)
    \/ \E c \in Conns : WsFirstMessage(c)
    \/ \E c \in Conns, ok \in BOOLEAN : WsSendRegistered(c, ok)
    \/ \E c \in Conns : ClientRecv(c)
    \/ \E c \in Conns : ClientSend(c, Close)
    \/ \E c \in Conns, ok \in BOOLEAN : WsInbound(c, ok)
    \/ \E r \in Reqs, line \in RequestLines :
          HttpAccept(r, Some(Subdomain(IdA)), line)
    \/ \E r \in Reqs : HandleRequestLookup(r)
    \/ \E r \in Reqs : HandleRequestSend(r)
    \/ \E r \in Reqs : HandleRequestWait(r)
    \/ \E c \in Conns : PumpRecv(c)
    \/ \E c \in Conns : PumpSend(c)

SpecLock == Init /\ [][NextLock]_vars

\* ------------------------------------------- stale-entry specification
\* The state the listener is in after connection 1 registered client "a" and
\* the write of its Registered reply failed (lines 121-123): the map still
\* holds the entry, the receiver of its channel is gone. Connection 2 runs
\* the session of the other client id. Public requests arrive for both.
InitStale ==
    /\ clients = [id \in ClientIds |->
                    [domain |-> None, sender |-> IF id = IdA THEN 1 ELSE 2]]
    /\ ws = [c \in Conns |->
               CASE c = 1 -> [WsIdle EXCEPT !.pc = "failed"]
                 [] c = 2 -> [WsIdle EXCEPT !.pc = "loop", !.client_id = IdAA]
                 [] OTHER -> WsIdle]
    /\ incoming = [c \in Conns |-> None]
    /\ outgoing = [c \in Conns |-> <<>>]
    /\ chan = [c \in Conns |->
                 CASE c = 1 -> [state |-> "closed", queue |-> <<>>]
                   [] c = 2 -> [state |-> "open", queue |-> <<>>]
                   [] OTHER -> [state |-> "none", queue |-> <<>>]]
    /\ pump = [c \in Conns |-> [spawned |-> c = 2, held |-> None]]
    /\ req = [r \in Reqs |-> ReqIdle]
    /\ agent = AgentInit
    /\ main = MainServer

NextStale ==
    \/ \E r \in Reqs, hdr \in PlainHeaders, line \in RequestLines :
          HttpAccept(r, hdr, line)
    \/ \E r \in Reqs : HandleRequestLookup(r)
    \/ \E r \in Reqs : HandleRequestSend(r)
    \/ \E r \in Reqs : HandleRequestWait(r)
    \/ \E c \in Conns : PumpRecv(c)
    \/ \E c \in Conns : PumpSend(c)

SpecStale == InitStale /\ [][NextStale]_vars

\* --------------------------------------------------- agent specification
\* The App, started with or without --domain, starting tunnels against any
\* peer.
InitAgent ==
    /\ clients = <<>>
    /\ ws = [c \in Conns |-> WsIdle]
    /\ incoming = [c \in Conns |-> None]
    /\ outgoing = [c \in Conns |-> <<>>]
    /\ chan = [c \in Conns |-> [state |-> "none", queue |-> <<>>]]
    /\ pump = [c \in Conns |-> [spawned |-> FALSE, held |-> None]]
    /\ req = [r \in Reqs |-> ReqIdle]
    /\ \E dom \in {None, Some(<<"a">>)} :
          agent = [AgentInit EXCEPT !.domain = dom]
    /\ main = MainClient

NextAgent ==
    \/ AppStartTunnel
    \/ \E ok \in BOOLEAN : StartSpawn(ok)
    \/ \E ok \in BOOLEAN : StartConnect(ok)
    \/ \E ok \in BOOLEAN : StartRegister(ok)
    \/ \E item \in ReplyItems : ServerReplies(item)
    \/ StartResponse

\* the agent's own steps are taken when they can be; nothing obliges the
\* peer to answer or the user to press a key
FairAgent ==
    /\ WF_vars(\E ok \in BOOLEAN : StartSpawn(ok))
    /\ WF_vars(\E ok \in BOOLEAN : StartConnect(ok))
    /\ WF_vars(\E ok \in BOOLEAN : StartRegister(ok))
    /\ WF_vars(StartResponse)

SpecAgent == InitAgent /\ [][NextAgent]_vars /\ FairAgent

\* ---------------------------------------------- forwarding specification
\* handle_forwarding as a start_tunnel that succeeded spawns it, which takes a
\* caller that kept the receiver of the log channel until then; the receiver
\* can go at any moment after.
InitForward ==
    /\ clients = <<>>
    /\ ws = [c \in Conns |-> WsIdle]
    /\ incoming = [c \in Conns |-> None]
    /\ outgoing = [c \in Conns |-> <<>>]
    /\ chan = [c \in Conns |-> [state |-> "none", queue |-> <<>>]]
    /\ pump = [c \in Conns |-> [spawned |-> FALSE, held |-> None]]
    /\ req = [r \in Reqs |-> ReqIdle]
    /\ agent = [StartSucceeded([AgentInit EXCEPT !.children = 1],
                               tunnel_url(IdA, None))
                  EXCEPT !.log_rx = TRUE]
    /\ main = MainClient

NextForward ==
    \/ LogReceiverDropped
    \/ \E ok \in BOOLEAN : FwdConnect(ok)
    \/ \E item \in DataItems : ServerSendsData(item)
    \/ \E ok \in BOOLEAN : FwdRead(ok)
    \/ \E outcome \in LocalOutcomes : LocalResponds(outcome)
    \/ \E ok \in BOOLEAN : FwdLocal(ok)
    \/ FwdBackoff
    \/ \E kill_ok \in BOOLEAN : AppStopTunnel(kill_ok)

\* the task's own steps are taken when they can be; nothing obliges the
\* peer, the local service or the owner of the log receiver to act
FairForward ==
    /\ WF_vars(\E ok \in BOOLEAN : FwdConnect(ok))
    /\ WF_vars(\E ok \in BOOLEAN : FwdRead(ok))
    /\ WF_vars(\E ok \in BOOLEAN : FwdLocal(ok))
    /\ WF_vars(FwdBackoff)

SpecForward == InitForward /\ [][NextForward]_vars /\ FairForward

\* ------------------------------------------------------ the App and its keys
\* The App under the keys 's' and 'q', for every result
\* tunnel::client::start_tunnel can return, from any command-line domain.
InitApp == InitAgent

NextApp ==
    \/ \E result \in StartResults, kill_ok \in BOOLEAN : KeyS(result, kill_ok)
    \/ \E kill_ok \in BOOLEAN : KeyQ(kill_ok)

SpecApp == InitApp /\ [][NextApp]_vars

\* ------------------------------------------------- agent and relay together
\* One start_tunnel of an agent whose caller keeps the receiver of the log
\* channel, against the relay: the socket of start_tunnel is the relay's
\* first connection, the socket of handle_forwarding its second. Public
\* requests for the agent's generated subdomain arrive meanwhile.
RegConn == 1
DataConn == 2

InitTunnel ==
    /\ clients = <<>>
    /\ ws = [c \in Conns |-> WsIdle]
    /\ incoming = [c \in Conns |-> None]
    /\ outgoing = [c \in Conns |-> <<>>]
    /\ chan = [c \in Conns |-> [state |-> "none", queue |-> <<>>]]
    /\ pump = [c \in Conns |-> [spawned |-> FALSE, held |-> None]]
    /\ req = [r \in Reqs |-> ReqIdle]
    /\ \E dom \in {None, Some(<<"a">>)} :
          agent = [AgentInit EXCEPT !.domain = dom, !.pc = "spawn",
                                    !.log_rx = TRUE]
    /\ main = MainClient

\* server.rs lines 66 and 80-82: the relay accepts the connection the agent
\* is opening
TunnelAccept(c, ok) ==
    /\ \/ c = RegConn /\ agent.pc = "connect"
       \/ c = DataConn /\ agent.fpc = "connect"
    /\ WsAccept(c, ok)

\* client.rs lines 62-65: connect_async succeeds when the relay has accepted
TunnelStartConnect(ok) ==
    /\ ok => ws[RegConn].pc = "first"
    /\ StartConnect(ok)

\* the Register frame written at client.rs lines 73-75 reaches the relay
TunnelRegisterArrives ==
    /\ agent.pc = "await"
    /\ agent.sock_out # <<>>
    /\ ws[RegConn].pc = "first"
    /\ incoming[RegConn] = None
    /\ incoming' = [incoming EXCEPT ![RegConn] = Some(Head(agent.sock_out))]
    /\ agent' = [agent EXCEPT !.sock_out = Tail(@)]
    /\ UNCHANGED <<clients, ws, outgoing, chan, pump, req, main>>

\* what the relay wrote on the first connection reaches socket.next() of
\* client.rs line 78; a relay whose handler has returned has closed it
TunnelReplyArrives ==
    /\ agent.pc = "await"
    /\ agent.sock_in = None
    /\ agent.sock_out = <<>>
    /\ IF outgoing[RegConn] # <<>>
       THEN /\ agent' = [agent EXCEPT !.sock_in = Some(Head(outgoing[RegConn]))]
            /\ outgoing' = [outgoing EXCEPT ![RegConn] = Tail(@)]
       ELSE /\ ws[RegConn].pc \in {"done", "failed"}
            /\ agent' = [agent EXCEPT !.sock_in = Some(StreamEnd)]
            /\ UNCHANGED outgoing
    /\ UNCHANGED <<clients, ws, incoming, chan, pump, req, main>>

\* client.rs lines 63 and 96-99: `socket` is a local of start_tunnel; when
\* start_tunnel has returned it is dropped and the relay's read of the first
\* connection ends with an error
TunnelSocketDropped ==
    /\ agent.pc = "idle"
    /\ ws[RegConn].pc \in {"first", "loop"}
    /\ incoming[RegConn] = None
    /\ incoming' = [incoming EXCEPT ![RegConn] = Some(StreamErr)]
    /\ UNCHANGED <<clients, ws, outgoing, chan, pump, req, agent, main>>

\* client.rs lines 109-116: the second connection, /data/{client_id}; no
\* frame is written to it
TunnelFwdConnect(ok) ==
    /\ ok => ws[DataConn].pc = "first"
    /\ FwdConnect(ok)

NextTunnel ==
    \/ \E ok \in BOOLEAN : StartSpawn(ok)
    \/ \E c \in Conns, ok \in BOOLEAN : TunnelAccept(c, ok)
    \/ \E ok \in BOOLEAN : TunnelStartConnect(ok)
    \/ \E ok \in BOOLEAN : StartRegister(ok)
    \/ TunnelRegisterArrives
    \/ \E c \in Conns : WsFirstMessage(c)
    \/ \E c \in Conns, ok \in BOOLEAN : WsSendRegistered(c, ok)
    \/ TunnelReplyArrives
    \/ StartResponse
    \/ TunnelSocketDropped
    \/ \E c \in Conns, ok \in BOOLEAN : WsInbound(c, ok)
    \/ \E ok \in BOOLEAN : TunnelFwdConnect(ok)
    \/ LogReceiverDropped
    \/ \E r \in Reqs, line \in RequestLines :
          HttpAccept(r, Some(Subdomain(IdA)), line)
    \/ \E r \in Reqs : HandleRequestLookup(r)
    \/ \E r \in Reqs : HandleRequestSend(r)
    \/ \E r \in Reqs : HandleRequestWait(r)
    \/ \E c \in Conns : PumpRecv(c)
    \/ \E c \in Conns : PumpSend(c)

SpecTunnel == InitTunnel /\ [][NextTunnel]_vars

\* ------------------------------------------------- the keep-alive exchange
\* One control channel with the relay's inbound loop (server.rs lines
\* 140-175) at one end and the agent's loop (client.rs lines 119-201) at the
\* other, and one KeepAlive frame on its way: to the relay, or to the agent.
\* Public requests for the agent's generated subdomain arrive meanwhile.
InitEcho ==
    /\ clients = [id \in {IdA} |-> [domain |-> None, sender |-> RegConn]]
    /\ ws = [c \in Conns |->
               IF c = RegConn
               THEN [WsIdle EXCEPT !.pc = "loop", !.client_id = IdA]
               ELSE WsIdle]
    /\ outgoing = [c \in Conns |-> <<>>]
    /\ chan = [c \in Conns |->
                 [state |-> IF c = RegConn THEN "open" ELSE "none",
                  queue |-> <<>>]]
    /\ pump = [c \in Conns |-> [spawned |-> c = RegConn, held |-> None]]
    /\ req = [r \in Reqs |-> ReqIdle]
    /\ main = MainClient
    /\ LET a == [StartSucceeded([AgentInit EXCEPT !.children = 1],
                                tunnel_url(IdA, None))
                   EXCEPT !.log_rx = TRUE, !.fpc = "read"]
       IN \/ /\ incoming = [c \in Conns |->
                              IF c = RegConn
                              THEN Some(Binary(to_vec(KeepAlive))) ELSE None]
             /\ agent = a
          \/ /\ incoming = [c \in Conns |-> None]
             /\ agent = [a EXCEPT !.inbox = <<Binary(to_vec(KeepAlive))>>]

\* a frame the relay wrote to the socket reaches the agent's socket.next()
EchoToAgent ==
    /\ outgoing[RegConn] # <<>>
    /\ agent.fpc = "read"
    /\ agent' = [agent EXCEPT !.inbox = Append(@, Head(outgoing[RegConn]))]
    /\ outgoing' = [outgoing EXCEPT ![RegConn] = Tail(@)]
    /\ UNCHANGED <<clients, ws, incoming, chan, pump, req, main>>

\* a frame the agent wrote to the socket reaches the relay's
\* ws_receiver.next()
EchoToRelay ==
    /\ agent.sent # <<>>
    /\ ws[RegConn].pc = "loop"
    /\ incoming[RegConn] = None
    /\ incoming' = [incoming EXCEPT ![RegConn] = Some(Head(agent.sent))]
    /\ agent' = [agent EXCEPT !.sent = Tail(@)]
    /\ UNCHANGED <<clients, ws, outgoing, chan, pump, req, main>>

\* the relay's handler has returned and its socket is closed: the agent's
\* stream ends once it has read what was written
EchoRelayGone ==
    /\ ws[RegConn].pc \in {"done", "failed"}
    /\ outgoing[RegConn] = <<>>
    /\ agent.fpc = "read"
    /\ agent.inbox = <<>>
    /\ agent' = [agent EXCEPT !.inbox = <<StreamEnd>>]
    /\ UNCHANGED <<server_vars, main>>

\* the agent's task has returned and its socket is dropped: the relay's
\* read ends with an error
EchoAgentGone ==
    /\ agent.fpc \in {"err", "ok", "backoff"}
    /\ ws[RegConn].pc = "loop"
    /\ incoming[RegConn] = None
    /\ incoming' = [incoming EXCEPT ![RegConn] = Some(StreamErr)]
    /\ UNCHANGED <<clients, ws, outgoing, chan, pump, req, agent, main>>

NextEcho ==
    \/ \E c \in Conns, ok \in BOOLEAN : WsInbound(c, ok)
    \/ \E ok \in BOOLEAN : FwdRead(ok)
    \/ EchoToAgent
    \/ EchoToRelay
    \/ EchoRelayGone
    \/ EchoAgentGone
    \/ FwdBackoff
    \/ LogReceiverDropped
    \/ \E r \in Reqs, line \in RequestLines :
          HttpAccept(r, Some(Subdomain(IdA)), line)
    \/ \E r \in Reqs : HandleRequestLookup(r)
    \/ \E r \in Reqs : HandleRequestSend(r)
    \/ \E r \in Reqs : HandleRequestWait(r)
    \/ \E c \in Conns : PumpRecv(c)
    \/ \E c \in Conns : PumpSend(c)

\* both loops run when they have a frame to read, and the connection
\* delivers what was written to it; nothing obliges a write to fail
FairEcho ==
    /\ WF_vars(WsInbound(RegConn, TRUE))
    /\ WF_vars(FwdRead(TRUE))
    /\ WF_vars(EchoToAgent)
    /\ WF_vars(EchoToRelay)
    /\ WF_vars(EchoRelayGone)
    /\ WF_vars(EchoAgentGone)
    /\ WF_vars(FwdBackoff)

SpecEcho == InitEcho /\ [][NextEcho]_vars /\ FairEcho

\* --------------------------------------------------------------- the process
\* The process from its command line and its stored config to the server's
\* listeners or the client's App.
PortArgs == {None, Some(DefaultPort), Some(3000)}

PublicPortArgs == {None, Some(DefaultPublicPort), Some(65534), Some(65535)}

DomainArgs == {None, Some(<<"a">>)}

StoredConfigs ==
    [port : {DefaultPort, 3000}, server_port : {DefaultPublicPort, 9000},
     domain : {None, Some(<<"b">>)}]

InitMain ==
    /\ clients = <<>>
    /\ ws = [c \in Conns |-> WsIdle]
    /\ incoming = [c \in Conns |-> None]
    /\ outgoing = [c \in Conns |-> <<>>]
    /\ chan = [c \in Conns |-> [state |-> "none", queue |-> <<>>]]
    /\ pump = [c \in Conns |-> [spawned |-> FALSE, held |-> None]]
    /\ req = [r \in Reqs |-> ReqIdle]
    /\ agent = AgentInit
    /\ \E args \in [port : PortArgs, domain : DomainArgs,
                     public_port : PublicPortArgs, server : BOOLEAN],
          config \in StoredConfigs :
          main = [pc |-> "start", args |-> args, config |-> config,
                  loaded |-> None, ws_port |-> None, http_port |-> None]

NextMain ==
    \/ \E ws_ok, http_ok, overflow_checks \in BOOLEAN :
          ServerRun(ws_ok, http_ok, overflow_checks)
    \/ \E load_ok \in BOOLEAN : AppNew(load_ok)

SpecMain == InitMain /\ [][NextMain]_vars

\* =================================================================== claims
Ended(c) == ws[c].pc \in {"done", "failed"}

\* request r has been forwarded on the channel of connection c and awaits
\* its response
Waiting(r, c) == req[r].pc = "wait" /\ req[r].sender = Some(c)

IsDataItem(item) ==
    /\ item.kind = "Binary"
    /\ from_slice_ok(item.data)
    /\ from_slice(item.data).type = "Data"

\* this step is the inbound loop of c taking a Data frame off the socket
DataHandled(c) ==
    /\ ws[c].pc = "loop"
    /\ incoming[c] # None
    /\ IsDataItem(incoming[c][1])
    /\ incoming'[c] = None

\* C1: when the client of a session sends a response frame while a request
\* forwarded to it is still waiting, a waiting request of that session gets
\* exactly those bytes: in its response channel, or as its 200 OK body.
C1_ResponseDelivered ==
    [][\A c \in Conns :
          (DataHandled(c) /\ \E r \in Reqs : Waiting(r, c)) =>
             \E r \in Reqs :
                /\ Waiting(r, c)
                /\ LET bytes == from_slice(incoming[c][1].data).data IN
                   \/ req'[r].rx = <<bytes>>
                   \/ /\ req'[r].pc = "done"
                      /\ req'[r].status = Some(OK)
                      /\ req'[r].body = bytes]_vars

\* C2: a forwarded request whose response channel stays empty completes
\* with 504 Gateway Timeout, and a response frame taken off the socket when
\* no request is waiting on that session changes no gateway task, keeps the
\* connection in its loop and leaves the client map alone.
C2_TimeoutAndLateResponse ==
    [][/\ \A r \in Reqs :
             (req[r].pc = "wait" /\ req[r].rx = <<>> /\ req[r].tx_alive
                /\ req'[r].pc = "done")
             => req'[r].status = Some(GATEWAY_TIMEOUT)
       /\ \A c \in Conns :
             (DataHandled(c) /\ ~ \E r \in Reqs : Waiting(r, c))
             => /\ req' = req
                /\ ws'[c] = ws[c]
                /\ clients' = clients
                /\ outgoing' = outgoing]_vars

\* the only session ever made is connection 1's, a request to it has timed
\* out, no request is in flight, and a response frame has now arrived
C2_Witness ==
    /\ ws[1].pc = "loop"
    /\ \A c \in Conns : c # 1 => ws[c].pc = "idle"
    /\ \E r \in Reqs : req[r].status = Some(GATEWAY_TIMEOUT)
    /\ \A r \in Reqs : req[r].pc \in {"idle", "done"}
    /\ chan[1].queue # <<>> \/ pump[1].held # None
    /\ incoming[1] # None
    /\ IsDataItem(incoming[1][1])

\* C3: when the handler of a session leaves its loop, every request that
\* was waiting on that session is unblocked: it has completed with 502, or
\* its response channel is closed, which handle_request answers with 502.
C3_DisconnectUnblocks ==
    [][\A c \in Conns :
          (ws[c].pc = "loop" /\ ws'[c].pc = "done") =>
             \A r \in Reqs :
                Waiting(r, c) =>
                   \/ req'[r].pc = "done" /\ req'[r].status = Some(BAD_GATEWAY)
                   \/ req'[r].pc = "wait" /\ ~req'[r].tx_alive]_vars

\* C6: when a Register frame replaces the session of a client id, the map
\* holds the new connection's session and every request waiting on the prior
\* session has been failed (its wait is over or its response channel closed).
C6_ReplaceFailsPending ==
    [][\A c \in Conns :
          (ws[c].pc = "first" /\ ws'[c].pc = "reply") =>
             LET id == ws'[c].client_id IN
             /\ id \in DOMAIN clients'
             /\ clients'[id].sender = c
             /\ id \in DOMAIN clients =>
                   \A r \in Reqs :
                      Waiting(r, clients[id].sender) =>
                         \/ req'[r].pc = "done"
                         \/ ~req'[r].tx_alive]_vars

\* C7: the client map holds no session made by a control connection whose
\* handler has ended.
C7_NoSessionOfEndedConnection ==
    \A id \in DOMAIN clients : ~Ended(clients[id].sender)

\* C10: the handler's first read makes a session exactly when the item read
\* is a binary frame that decodes to Register; with any other first item the
\* handler ends, the client map is unchanged and nothing is written to the
\* socket; and nothing is ever written to the socket of a connection that
\* has not registered.
C10_OnlyRegisterCreatesSession ==
    [][\A c \in Conns :
          /\ (ws[c].pc = "first" /\ ws'[c].pc # "first") =>
                IF IsRegister(incoming[c][1])
                THEN LET m == from_slice(incoming[c][1].data) IN
                     /\ ws'[c].pc = "reply"
                     /\ clients' = Insert(clients, m.client_id,
                                          [domain |-> m.domain, sender |-> c])
                ELSE /\ ws'[c].pc = "done"
                     /\ clients' = clients
                     /\ outgoing' = outgoing
                     /\ chan' = chan
          /\ Len(outgoing'[c]) > Len(outgoing[c]) =>
                ws[c].pc \in {"reply", "loop"}]_vars

\* a connection whose first item was no Register has ended: no session, no
\* channel, nothing written
C10_Witness ==
    \E c \in Conns :
       /\ ws[c].pc = "done"
       /\ chan[c].state = "none"
       /\ clients = <<>>
       /\ outgoing[c] = <<>>

\* this step is the lookup of request r
LookupStep(r) == req[r].pc = "lookup" /\ req'[r].pc # "lookup"

\* request r has been routed to the session of id
RoutedTo(r, id) ==
    /\ req'[r].pc = "send"
    /\ req'[r].client_id = id
    /\ req'[r].sender = Some(clients[id].sender)

NoRival(id, host) ==
    \A o \in DOMAIN clients :
       /\ clients[o].domain # None => ~StartsWith(host, clients[o].domain[1])
       /\ o # id => ~StartsWith(host, Subdomain(o))

SomeSessionMatches(h) ==
    \E id \in DOMAIN clients :
       \/ clients[id].domain # None /\ StartsWith(h, clients[id].domain[1])
       \/ StartsWith(h, Subdomain(id))

AnsweredNotFound(r) ==
    req'[r].pc = "done" /\ req'[r].status = Some(NOT_FOUND)

\* C9 as stated: 404 exactly when there is no Host header or no session
\* matches the value of the Host header; a 404 enqueues nothing and leaves
\* the client map unchanged.
C9_NotFoundIffNoMatchOnHost ==
    [][\A r \in Reqs :
          LookupStep(r) =>
             /\ AnsweredNotFound(r) <=>
                   \/ req[r].host_header = NoHeader
                   \/ ~SomeSessionMatches(req[r].host_header[1])
             /\ AnsweredNotFound(r) => chan' = chan /\ clients' = clients]_vars

\* C9, amended: 404 exactly when there is no Host header or no session
\* matches the routing host, which is the Host value up to its first '/', or
\* the empty string when the value is not visible ASCII; a 404 enqueues
\* nothing and leaves the client map unchanged.
C9_NotFoundIffNoMatchOnBaseDomain ==
    [][\A r \in Reqs :
          LookupStep(r) =>
             /\ AnsweredNotFound(r) <=>
                   \/ req[r].host_header = NoHeader
                   \/ ~SomeSessionMatches(
                         SplitFirst(to_str_or_empty(req[r].host_header[1]),
                                    "/"))
             /\ AnsweredNotFound(r) =>
                   /\ chan' = chan
                   /\ pump' = pump
                   /\ clients' = clients]_vars

\* a request has been answered 404 while sessions are registered, and no
\* channel holds a frame
C9_Witness ==
    /\ clients # <<>>
    /\ \E r \in Reqs : req[r].pc = "done" /\ req[r].status = Some(NOT_FOUND)
    /\ \A r \in Reqs : req[r].pc \in {"idle", "done"}
       /\ (req[r].pc = "done" => req[r].status = Some(NOT_FOUND))
    /\ \A c \in Conns : chan[c].queue = <<>> /\ pump[c].held = None

\* C4: every request handed to handle_request is eventually answered.
C4_EveryRequestCompletes ==
    \A r \in Reqs : (req[r].pc = "lookup") ~> (req[r].pc = "done")

\* C5: a gateway task that is at the send of its request frame is never
\* suspended there (the send enqueues or fails at once), and a send that
\* fails is answered 502.
C5_SendNeverSuspends ==
    \A r \in Reqs :
       /\ req[r].pc = "send" => ENABLED HandleRequestSend(r)
       /\ req[r].pc = "done" =>
             req[r].status \in {Some(NOT_FOUND), Some(BAD_GATEWAY),
                                Some(GATEWAY_TIMEOUT), Some(OK)}

\* C11: the handler keeps the client id and the domain of the Register frame
\* it read, and the Registered reply it writes carries "https://" followed by
\* that domain when the frame has one, and by "{client_id}.public.dev.peril.lol"
\* otherwise.
C11_RegisteredUrl ==
    [][\A c \in Conns :
          /\ (ws[c].pc = "first" /\ ws'[c].pc = "reply") =>
                LET m == from_slice(incoming[c][1].data) IN
                /\ ws'[c].client_id = m.client_id
                /\ ws'[c].domain = m.domain
          /\ (ws[c].pc = "reply" /\ ws'[c].pc = "loop") =>
                outgoing'[c] = Append(outgoing[c],
                   Binary(to_vec(Registered(
                      IF ws[c].domain # None
                      THEN <<"h", "t", "t", "p", "s", ":", "/", "/">>
                              \o ws[c].domain[1]
                      ELSE <<"h", "t", "t", "p", "s", ":", "/", "/">>
                              \o ws[c].client_id \o BaseSuffix))))]_vars

\* one agent registered with the custom domain "a" and got "https://a", and
\* another registered without one and got its generated subdomain
C11_Witness ==
    \E c, d \in Conns :
       /\ ws[c].pc = "loop"
       /\ ws[c].domain = Some(<<"a">>)
       /\ outgoing[c] = <<Binary(to_vec(Registered(
                              <<"h", "t", "t", "p", "s", ":", "/", "/", "a">>)))>>
       /\ ws[d].pc = "loop"
       /\ ws[d].domain = None
       /\ outgoing[d] = <<Binary(to_vec(Registered(
                              Https \o ws[d].client_id \o BaseSuffix)))>>

\* C12: a frame the forwarding task has taken from the session's channel
\* leaves the task by being written to the control socket, behind the frames
\* written before it: the frames reach the socket once each, in the order
\* of the channel.
C12_PumpWritesInOrder ==
    [][\A c \in Conns :
          (pump[c].held # None /\ pump'[c].held = None) =>
             /\ outgoing'[c] = Append(outgoing[c], pump[c].held[1])
             /\ chan'[c].queue = chan[c].queue]_vars

\* this step is the inbound loop of c taking a KeepAlive frame off the socket
KeepAliveHandled(c) ==
    /\ ws[c].pc = "loop"
    /\ incoming[c] # None
    /\ incoming[c][1] = Binary(to_vec(KeepAlive))
    /\ incoming'[c] = None

\* C13: once the session is running, a frame is written to the control
\* socket only by the forwarding task, which writes the frame it took from
\* the session's channel; and the inbound loop answers a KeepAlive by putting
\* a KeepAlive on that channel.
C13_SocketWritesViaChannel ==
    [][\A c \in Conns :
          ws[c].pc = "loop" =>
             /\ outgoing'[c] # outgoing[c] /\ Len(outgoing'[c]) > Len(outgoing[c])
                   => /\ pump[c].held # None
                      /\ outgoing'[c] = Append(outgoing[c], pump[c].held[1])
             /\ (KeepAliveHandled(c) /\ ws'[c].pc = "loop")
                   => chan'[c].queue =
                         Append(chan[c].queue, Binary(to_vec(KeepAlive)))]_vars

\* C14: once the handler of a session has ended, the forwarding task it
\* spawned ends too.
C14_PumpEndsWithSession ==
    \A c \in Conns : (Ended(c) /\ pump[c].spawned) ~> ~pump[c].spawned

\* the send of request r fails in this step: the receiver of the channel it
\* was routed to is gone
SendFails(r) ==
    /\ req[r].pc = "send"
    /\ chan[req[r].sender[1]].state = "closed"
    /\ req'[r] # req[r]

\* C15: a request whose processing fails is answered 500 Internal Server
\* Error with the JSON error body, and that step changes no other request,
\* no session, no channel and no handler; and with a request answered 500
\* the listener still hands the next connection to a free task.
C15_FailureConfined ==
    /\ [][\A r \in Reqs :
             SendFails(r) =>
                /\ req'[r].pc = "done"
                /\ req'[r].status = Some(INTERNAL_SERVER_ERROR)
                /\ req'[r].body = <<"{\"error\":\"Internal server error\"}">>
                /\ \A q \in Reqs : q # r => req'[q] = req[q]
                /\ clients' = clients
                /\ ws' = ws
                /\ chan' = chan
                /\ pump' = pump
                /\ outgoing' = outgoing]_vars
    /\ [](\A r \in Reqs :
             req[r].status = Some(INTERNAL_SERVER_ERROR) =>
                \A q \in Reqs :
                   (req[q].pc = "idle"
                      /\ \A p \in Reqs : p < q => req[p].pc # "idle")
                   => ENABLED HttpAccept(q, NoHeader, <<"GET", "/">>))

\* one request has been answered 500 while another one, forwarded to the
\* running session, is still waiting, and both sessions are still in the map
C15_Witness ==
    \E r, q \in Reqs :
       /\ req[r].pc = "done"
       /\ req[r].status = Some(INTERNAL_SERVER_ERROR)
       /\ Waiting(q, 2)
       /\ ws[2].pc = "loop"
       /\ DOMAIN clients = ClientIds

\* a binary frame whose payload does not decode, or decodes to a message
\* that is neither Data nor KeepAlive
Unexpected(item) ==
    /\ item.kind = "Binary"
    /\ \/ ~Decodes(item.data)
       \/ from_slice(item.data).type \notin {"Data", "KeepAlive"}

ReplyIsRegistered ==
    /\ agent.sock_in # None
    /\ agent.sock_in[1].kind = "Binary"
    /\ Decodes(agent.sock_in[1].data)
    /\ from_slice(agent.sock_in[1].data).type = "Registered"

\* C17: once the Register frame is sent, start_tunnel returns; it returns
\* success with the url of the reply when the reply is Registered, and a
\* failure kept by the App otherwise.
C17_StartEndsInBoundedWait ==
    /\ (agent.pc = "await") ~> (agent.pc = "idle")
    /\ [][(agent.pc = "await" /\ agent'.pc = "idle") =>
             IF ReplyIsRegistered
             THEN /\ agent'.tunnel_active
                  /\ agent'.tunnel_url =
                        Some(from_slice(agent.sock_in[1].data).url)
                  /\ agent'.connection_error = None
             ELSE /\ ~agent'.tunnel_active
                  /\ agent'.connection_error # None]_vars

\* C18: after the forwarding task has left its loop and is in its backoff,
\* it connects to the server again.
C18_ReconnectsAfterBackoff ==
    (agent.fpc = "backoff") ~> (agent.fpc = "connect")

C20_FramesHandledDuringBridge ==
    (agent.fpc = "local" /\ agent.local = None /\ agent.inbox # <<>>)
       => ENABLED (\E ok \in BOOLEAN : FwdRead(ok))

\* C26: an entry leaves the client map only in a step in which the handler
\* of the control connection that made it ends; in particular the end of an
\* older connection leaves the session a newer connection registered under
\* the same client id.
C26_RemovedOnlyByOwnConnection ==
    [][\A id \in DOMAIN clients :
          id \notin DOMAIN clients' =>
             LET c == clients[id].sender IN
             /\ ws[c].pc = "loop"
             /\ ws'[c].pc = "done"]_vars

\* C28: the session a request is routed to is a function of the request and
\* of the client map: the lookup of a request cannot end with two different
\* client ids.
C28_RoutingDeterministic ==
    \A r \in Reqs : \A id1, id2 \in ClientIds :
       (/\ ENABLED (HandleRequestLookup(r) /\ req'[r].pc = "send"
                                           /\ req'[r].client_id = id1)
        /\ ENABLED (HandleRequestLookup(r) /\ req'[r].pc = "send"
                                           /\ req'[r].client_id = id2))
       => id1 = id2

\* C22: when the reply start_tunnel reads is Registered{url}, App::start_tunnel
\* ends with the tunnel active, tunnel_url = url and a process handle, and
\* without connection_error.
C22_RegisteredMeansStarted ==
    [][(/\ agent.pc = "await"
        /\ agent'.pc = "idle"
        /\ ReplyIsRegistered)
       => /\ agent'.tunnel_active
          /\ agent'.tunnel_url = Some(from_slice(into_data(agent.sock_in[1])).url)
          /\ agent'.tunnel_process # None
          /\ agent'.connection_error = None]_vars

\* the forwarding task takes a step of its own: it leaves its place in the
\* code, takes a frame off the socket or writes one
TaskStep ==
    \/ agent'.fpc # agent.fpc
    \/ Len(agent'.inbox) < Len(agent.inbox)
    \/ agent'.sent # agent.sent
    \/ agent.local # None /\ agent'.local = None

\* C23: once stop_tunnel has run, the forwarding task takes no step: it
\* reads no frame, opens no connection to the local service and neither
\* begins nor finishes the wait before a reconnect.
C23_StoppedTaskTakesNoStep ==
    [][(agent.pc = "idle" /\ ~agent.tunnel_active) => ~TaskStep]_vars

\* C27: when start_tunnel is not running and the App holds no process
\* handle, no child spawned by start_tunnel is running.
C27_NoChildWithoutHandle ==
    (agent.pc \in {"idle", "quit"} /\ agent.tunnel_process = None)
       => agent.children = 0

\* C29: between key actions, tunnel_active holds exactly when tunnel_url is
\* Some and exactly when tunnel_process is Some, and tunnel_active and
\* connection_error are never both set.
C29_AppFieldsAgree ==
    agent.pc \in {"idle", "quit"} =>
       /\ agent.tunnel_active <=> agent.tunnel_url # None
       /\ agent.tunnel_active <=> agent.tunnel_process # None
       /\ ~(agent.tunnel_active /\ agent.connection_error # None)

\* a tunnel is active for the second time: started, stopped and started
\* again after a failed start
C29_Witness ==
    /\ agent.pc = "idle"
    /\ agent.tunnel_active
    /\ agent.tunnel_url # None
    /\ agent.children = 2

\* C25: a server that got past its start listens for control connections on
\* the port of the command line and for HTTP on that port plus one, and the
\* start does not end in an arithmetic overflow.
C25_ListensOnPortPlusOne ==
    (main.args.server /\ main.pc \in {"server", "panic"}) =>
       LET p == ArgValue(main.args.public_port, DefaultPublicPort) IN
       /\ main.pc = "server"
       /\ main.ws_port = Some(p)
       /\ main.http_port = Some(p + 1)

\* C30: the App uses the port, the server port and the domain of the
\* command line whenever one was given, and the value of the loaded config
\* only when none was given.
C30_ArgsOverrideConfig ==
    main.pc = "client" =>
       LET config == main.loaded[1] IN
       /\ agent.port = IF main.args.port # None THEN main.args.port[1]
                       ELSE config.port
       /\ agent.server_port =
             IF main.args.public_port # None THEN main.args.public_port[1]
             ELSE config.server_port
       /\ agent.domain = IF main.args.domain # None THEN main.args.domain
                         ELSE config.domain

\* C24: no task has a guard of the registry lock at any of its awaits (the
\* socket reads and writes, the channel send, the response wait), so the
\* insert of a registration, the remove of a teardown and the lookup of a
\* request can be taken whenever their task has reached them, whatever the
\* other tasks wait for.
C24_LockNotHeldAcrossAwaits ==
    /\ LockFree
    /\ \A c \in Conns :
          /\ (ws[c].pc = "first" /\ incoming[c] # None)
                => ENABLED WsFirstMessage(c)
          /\ (ws[c].pc = "loop" /\ incoming[c] # None)
                => ENABLED WsInbound(c, FALSE)
    /\ \A r \in Reqs : req[r].pc = "lookup" => ENABLED HandleRequestLookup(r)

\* a request waits for its response and another has its send suspended or
\* pending on the session of one connection, while the Register frame of the
\* other connection is ready to be read
C24_Witness ==
    \E r \in Reqs, c, d \in Conns :
       /\ c # d
       /\ Waiting(r, c)
       /\ ws[c].pc = "loop"
       /\ ws[d].pc = "first"
       /\ incoming[d] # None
       /\ IsRegister(incoming[d][1])

\* C21: while the tunnel is active and the forwarding loop reads its socket,
\* the relay's map has a session under the agent's client id and the
\* channel of that session belongs to the connection the loop reads.
C21_LoopReadsRegisteredConnection ==
    (agent.tunnel_active /\ agent.fpc = "read") =>
       /\ agent.client_id \in DOMAIN clients
       /\ clients[agent.client_id].sender = DataConn

\* a KeepAlive frame is on its way on the control channel, in either
\* direction
KeepAliveInFlight ==
    LET k == Binary(to_vec(KeepAlive)) IN
    \/ incoming[RegConn] = Some(k)
    \/ \E i \in DOMAIN outgoing[RegConn] : outgoing[RegConn][i] = k
    \/ \E i \in DOMAIN agent.inbox : agent.inbox[i] = k
    \/ \E i \in DOMAIN agent.sent : agent.sent[i] = k

====
